---- MODULE Spec2Model ----
(***************************************************************************)
(* Model of package s3 of LogParserForKarpenter (src/s3/s3.go): the        *)
(* configuration resolved by init(), the accessors IsEnabled and           *)
(* GetConfig, the serializer convertToCSV and the upload UploadToS3.       *)
(*                                                                         *)
(* Go strings are sequences of one-character strings, so that formatting,  *)
(* trimming and concatenation are computed, not assumed.                   *)
(***************************************************************************)
EXTENDS Integers, Sequences, FiniteSets, TLC

(***************************************************************************)
(* Bounds of the model.                                                    *)
(***************************************************************************)
\* identifiers a Record Collection of the serializer runs may hold
MaxRecs == 3
\* largest Createdtime of a record (the smallest is 9, so that the decimal
\* rendering has one and two digits)
MaxTime == 11
\* seconds the wall clock may advance during a run
MaxTicks == 1

(***************************************************************************)
(* String literals of the source.                                          *)
(***************************************************************************)
Empty == <<>>
Slash == <<"/">>
Comma == <<",">>
Newline == <<"\n">>
NodeclaimLabel == <<"N","o","d","e","c","l","a","i","m","[","1","]">>
DefaultPrefix == <<"k","a","r","p","e","n","t","e","r","-","l","o","g","s">>
DefaultRegion == <<"u","s","-","e","a","s","t","-","1">>
KeyInfix == <<"/","k","a","r","p","e","n","t","e","r","-","n","o","d","e","c","l","a","i","m","s","-">>
KeySuffix == <<".","c","s","v">>
SuccessNotice == <<"S","u","c","c","e","s","s","f","u","l","l","y"," ","u","p","l","o","a","d","e","d"," ","t","o"," ","s","3",":","/","/">>
ConfigErrMsg == <<"u","n","a","b","l","e"," ","t","o"," ","l","o","a","d"," ","A","W","S"," ","S","D","K"," ","c","o","n","f","i","g",":"," ">>
UploadErrMsg == <<"f","a","i","l","e","d"," ","t","o"," ","u","p","l","o","a","d"," ","t","o"," ","S","3",":"," ">>

(***************************************************************************)
(* Formatting.                                                             *)
(***************************************************************************)
DigitChar == <<"0","1","2","3","4","5","6","7","8","9">>

\* %d and %v of a non-negative integer: its decimal digits
RECURSIVE Dec(_)
Dec(n) ==
    IF n < 10 THEN <<DigitChar[n + 1]>>
    ELSE Dec(n \div 10) \o <<DigitChar[(n % 10) + 1]>>

\* a two-digit, zero-padded field of a time layout ("15", "04", "05")
Pad2(n) == <<DigitChar[(n \div 10) + 1], DigitChar[(n % 10) + 1]>>

\* strings.TrimSuffix(s, suffix): s without ONE trailing suffix, if it has one
TrimSuffix(s, suffix) ==
    IF /\ Len(s) >= Len(suffix)
       /\ SubSeq(s, Len(s) - Len(suffix) + 1, Len(s)) = suffix
    THEN SubSeq(s, 1, Len(s) - Len(suffix))
    ELSE s

(***************************************************************************)
(* lp4k.Nodeclaimstruct.  The parser package is not part of the sources at *)
(* hand; the Record shape is the one the specification uses in its         *)
(* examples: fields [Name, Createdtime], Createdtime an ordered number.    *)
(***************************************************************************)
FieldNames == << <<"N","a","m","e">>, <<"C","r","e","a","t","e","d","t","i","m","e">> >>
NumField == Len(FieldNames)

\* values of the Name field; one holds a comma (the serializer does not quote)
Names == { <<"n">>, <<"x", ",", "y">> }
Times == 9..MaxTime
Nodeclaimstruct == [Name : Names, Createdtime : Times]

\* reflectval.Field(i).Interface() rendered by %v (i counts from 0)
FieldValue(value, i) ==
    IF i = 0 THEN value.Name ELSE Dec(value.Createdtime)

(***************************************************************************)
(* convertToCSV                                                            *)
(***************************************************************************)
\* a header whose positions are those of the fields, not of the columns
RECURSIVE HeaderLoop_FieldIndex(_)
HeaderLoop_FieldIndex(n) ==
    IF n = 0 THEN NodeclaimLabel
    ELSE HeaderLoop_FieldIndex(n - 1) \o Comma \o FieldNames[n]
             \o <<"[">> \o Dec(n) \o <<"]">>

\* header after the first n rounds of the loop over the fields
RECURSIVE HeaderLoop(_)
HeaderLoop(n) ==
    IF n = 0 THEN NodeclaimLabel
    ELSE LET i == n - 1
         IN  HeaderLoop(n - 1) \o Comma \o FieldNames[i + 1]
                 \o <<"[">> \o Dec(i + 2) \o <<"]">>

Header == HeaderLoop(NumField)

\* the orders in which `for k, v := range *nodeclaimmap` may fill the slice s:
\* every enumeration of the map's pairs, each pair once
RangeOrders(m) ==
    LET n == Cardinality(DOMAIN m)
    IN  { [i \in 1..n |-> [key |-> f[i], value |-> m[f[i]]]] :
            f \in { g \in [1..n -> DOMAIN m] :
                      \A i, j \in 1..n : i # j => g[i] # g[j] } }

Swap(s, i, j) == [s EXCEPT ![i] = s[j], ![j] = s[i]]

\* the inner loop: for j := i+1; j < len(s); j++ (indices from 1 here)
RECURSIVE SortInner(_, _, _)
SortInner(s, i, j) ==
    IF j > Len(s) THEN s
    ELSE SortInner(IF s[i].value.Createdtime > s[j].value.Createdtime
                   THEN Swap(s, i, j) ELSE s,
                   i, j + 1)

\* the outer loop: for i := 0; i < len(s); i++
RECURSIVE SortOuter(_, _)
SortOuter(s, i) ==
    IF i > Len(s) THEN s
    ELSE SortOuter(SortInner(s, i, i + 1), i + 1)

\* a sort whose outer loop runs once: the smallest comes first, the rest stay
SortByCreatedtime_OnePass(s) == SortInner(s, 1, 2)

SortByCreatedtime(s) == SortOuter(s, 1)

\* the fields of one row: ",%v" for each field in declared order
RECURSIVE RowFields(_, _)
RowFields(value, n) ==
    IF n = 0 THEN Empty
    ELSE RowFields(value, n - 1) \o Comma \o FieldValue(value, n - 1)

WriteRow(kv) == kv.key \o RowFields(kv.value, NumField) \o Newline

RECURSIVE WriteRows(_)
WriteRows(s) ==
    IF s = <<>> THEN Empty
    ELSE WriteRow(Head(s)) \o WriteRows(Tail(s))

\* convertToCSV(nodeclaimmap), the range loop having filled s in order `s`
convertToCSV(nodeclaimmap, s) ==
    IF Cardinality(DOMAIN nodeclaimmap) = 0
    THEN Header \o Newline
    ELSE Header \o Newline \o WriteRows(SortByCreatedtime(s))

(***************************************************************************)
(* The process: environment, configuration, clock, bucket, callers.        *)
(***************************************************************************)
VARIABLES
    env,          \* LP4K_S3_BUCKET, LP4K_S3_PREFIX, LP4K_S3_REGION of the process
    initDone,     \* init() has run
    s3Bucket, s3Prefix, s3Region, s3Enabled,
    clock,        \* the local wall clock: second of the day
    storage,      \* the bucket: object key -> object body
    pc,           \* each caller's position
    arg,          \* the nodeclaimmap a caller passed
    invokedAt,    \* the clock when the call was made
    snapshot,     \* slice s of convertToCSV as the range loop filled it
    csvData,      \* local csvData of UploadToS3
    timestampAt,  \* the clock time.Now() returned to the call
    s3Key,        \* local s3Key of UploadToS3
    ret,          \* what the call returned
    stderr,       \* lines the call has written to os.Stderr
    steps         \* the steps the call has performed, in order, each with
                  \* what it got back ("ok" or the cause of its failure)

config == <<s3Bucket, s3Prefix, s3Region, s3Enabled>>
locals == <<arg, invokedAt, snapshot, csvData, timestampAt, s3Key, ret, stderr, steps>>
vars == <<env, initDone, config, clock, storage, pc, locals>>

\* goroutines that may call into the package
Callers == {1, 2}

\* values the three environment variables may hold
BucketValues == { Empty, <<"b">> }
PrefixValues == { Empty, <<"l","o","g","s">>, <<"l","o","g","s","/">>,
                  <<"l","o","g","s","/","/">>, Slash }
RegionValues == { Empty, <<"r">> }

\* the first n identifiers
IdList == << <<"a">>, <<"b">>, <<"c">>, <<"d">>, <<"e">> >>
Ids(n) == { IdList[i] : i \in 1..n }

\* the Record Collections over the first n identifiers
Collections(n) ==
    UNION { [D -> Nodeclaimstruct] : D \in SUBSET Ids(n) }

EmptyMap == [k \in {} |-> [Name |-> <<"n">>, Createdtime |-> 9]]

\* the maps the callers of UploadToS3 pass
UploadInputs ==
    { EmptyMap, [k \in Ids(1) |-> [Name |-> <<"n">>, Createdtime |-> 10]] }

\* errors: the message put before the cause, and the cause wrapped by %w
NilErr == [msg |-> Empty, wraps |-> "nil"]
ConfigCauses == { "no credentials" }
PutCauses == { "access denied", "context canceled" }

NoRet == [op |-> "none", err |-> NilErr, enabled |-> FALSE,
          config |-> <<Empty, Empty, Empty>>]

\* the clock when the process starts: 03:04:59
StartOfRun == 3 * 3600 + 4 * 60 + 59
DateOfRun == <<"2","0","2","4","-","0","1","-","0","2">>

\* time.Time.Format("2006-01-02-15-04-05") of an instant of the day of the run
Format(t) ==
    DateOfRun \o <<"-">> \o Pad2((t \div 3600) % 24)
              \o <<"-">> \o Pad2((t \div 60) % 60)
              \o <<"-">> \o Pad2(t % 60)

NoLocals(p) ==
    /\ arg' = [arg EXCEPT ![p] = EmptyMap]
    /\ invokedAt' = [invokedAt EXCEPT ![p] = 0]
    /\ snapshot' = [snapshot EXCEPT ![p] = <<>>]
    /\ csvData' = [csvData EXCEPT ![p] = Empty]
    /\ timestampAt' = [timestampAt EXCEPT ![p] = 0]
    /\ s3Key' = [s3Key EXCEPT ![p] = Empty]
    /\ stderr' = [stderr EXCEPT ![p] = <<>>]
    /\ steps' = [steps EXCEPT ![p] = <<>>]

InitProcess ==
    /\ env \in [bucket : BucketValues, prefix : PrefixValues, region : RegionValues]
    /\ initDone = FALSE
    /\ s3Bucket = Empty /\ s3Prefix = Empty /\ s3Region = Empty
    /\ s3Enabled = FALSE
    /\ clock = StartOfRun
    /\ storage = [k \in {} |-> Empty]
    /\ pc = [p \in Callers |-> "idle"]
    /\ arg = [p \in Callers |-> EmptyMap]
    /\ invokedAt = [p \in Callers |-> 0]
    /\ snapshot = [p \in Callers |-> <<>>]
    /\ csvData = [p \in Callers |-> Empty]
    /\ timestampAt = [p \in Callers |-> 0]
    /\ s3Key = [p \in Callers |-> Empty]
    /\ ret = [p \in Callers |-> NoRet]
    /\ stderr = [p \in Callers |-> <<>>]
    /\ steps = [p \in Callers |-> <<>>]

Init == InitProcess

(***************************************************************************)
(* init(): the configuration is resolved once, before any call.            *)
(***************************************************************************)
\* an init that defaults the prefix and forgets the region
init_RegionNotDefaulted ==
    /\ ~initDone
    /\ initDone' = TRUE
    /\ s3Bucket' = env.bucket
    /\ s3Enabled' = (env.bucket # Empty)
    /\ s3Prefix' = IF env.bucket # Empty /\ env.prefix = Empty
                   THEN DefaultPrefix ELSE env.prefix
    /\ s3Region' = env.region
    /\ UNCHANGED <<env, clock, storage, pc, locals>>

init ==
    /\ ~initDone
    /\ initDone' = TRUE
    /\ s3Bucket' = env.bucket
    /\ s3Enabled' = (env.bucket # Empty)
    /\ s3Prefix' = IF env.bucket # Empty /\ env.prefix = Empty
                   THEN DefaultPrefix ELSE env.prefix
    /\ s3Region' = IF env.bucket # Empty /\ env.region = Empty
                   THEN DefaultRegion ELSE env.region
    /\ UNCHANGED <<env, clock, storage, pc, locals>>

(***************************************************************************)
(* IsEnabled, GetConfig                                                    *)
(***************************************************************************)
IsEnabled(p) ==
    /\ initDone /\ pc[p] = "idle"
    /\ pc' = [pc EXCEPT ![p] = "done"]
    /\ ret' = [ret EXCEPT ![p] = [NoRet EXCEPT !.op = "IsEnabled",
                                               !.enabled = s3Enabled]]
    /\ UNCHANGED <<env, initDone, config, clock, storage,
                   arg, invokedAt, snapshot, csvData, timestampAt, s3Key, stderr, steps>>

GetConfig(p) ==
    /\ initDone /\ pc[p] = "idle"
    /\ pc' = [pc EXCEPT ![p] = "done"]
    /\ ret' = [ret EXCEPT ![p] = [NoRet EXCEPT !.op = "GetConfig",
                                               !.config = <<s3Bucket, s3Prefix, s3Region>>]]
    /\ UNCHANGED <<env, initDone, config, clock, storage,
                   arg, invokedAt, snapshot, csvData, timestampAt, s3Key, stderr, steps>>

(***************************************************************************)
(* UploadToS3, step by step.                                               *)
(***************************************************************************)
\* a step of the call and what it got back
Did(name, result) == [name |-> name, result |-> result]

UploadRet(e) == [NoRet EXCEPT !.op = "UploadToS3", !.err = e]

\* an upload without the gate check
GateCheck_NoGate(p) ==
    /\ initDone /\ pc[p] = "idle"
    /\ \E m \in UploadInputs : arg' = [arg EXCEPT ![p] = m]
    /\ invokedAt' = [invokedAt EXCEPT ![p] = clock]
    /\ steps' = [steps EXCEPT ![p] = <<Did("gate", "ok")>>]
    /\ pc' = [pc EXCEPT ![p] = "session"]
    /\ ret' = [ret EXCEPT ![p] = NoRet]
    /\ UNCHANGED <<env, initDone, config, clock, storage,
                   snapshot, csvData, timestampAt, s3Key, stderr>>

\* the call and its gate check: if !s3Enabled { return nil }
GateCheck(p) ==
    /\ initDone /\ pc[p] = "idle"
    /\ \E m \in UploadInputs : arg' = [arg EXCEPT ![p] = m]
    /\ invokedAt' = [invokedAt EXCEPT ![p] = clock]
    /\ steps' = [steps EXCEPT ![p] = <<Did("gate", "ok")>>]
    /\ IF ~s3Enabled
       THEN /\ pc' = [pc EXCEPT ![p] = "done"]
            /\ ret' = [ret EXCEPT ![p] = UploadRet(NilErr)]
       ELSE /\ pc' = [pc EXCEPT ![p] = "session"]
            /\ ret' = [ret EXCEPT ![p] = NoRet]
    /\ UNCHANGED <<env, initDone, config, clock, storage,
                   snapshot, csvData, timestampAt, s3Key, stderr>>

\* the error of LoadDefaultConfig left unchecked: the call goes on
LoadDefaultConfig_ErrIgnored(p) ==
    /\ pc[p] = "session"
    /\ \E result \in {"ok"} \cup ConfigCauses :
         steps' = [steps EXCEPT ![p] = Append(@, Did("session", result))]
    /\ pc' = [pc EXCEPT ![p] = "serialize"]
    /\ UNCHANGED <<env, initDone, config, clock, storage, ret,
                   arg, invokedAt, snapshot, csvData, timestampAt, s3Key, stderr>>

\* config.LoadDefaultConfig(ctx, config.WithRegion(s3Region)) and its error check
LoadDefaultConfig(p) ==
    /\ pc[p] = "session"
    /\ \/ /\ steps' = [steps EXCEPT ![p] = Append(@, Did("session", "ok"))]
          /\ pc' = [pc EXCEPT ![p] = "serialize"]
          /\ UNCHANGED ret
       \/ \E cause \in ConfigCauses :
            /\ steps' = [steps EXCEPT ![p] = Append(@, Did("session", cause))]
            /\ pc' = [pc EXCEPT ![p] = "done"]
            /\ ret' = [ret EXCEPT ![p] =
                         UploadRet([msg |-> ConfigErrMsg, wraps |-> cause])]
    /\ UNCHANGED <<env, initDone, config, clock, storage,
                   arg, invokedAt, snapshot, csvData, timestampAt, s3Key, stderr>>

\* a call of convertToCSV with the caller's map: the range loop enumerates the
\* map in some order, the result is what the function returns for that order
Convert(p) ==
    \E s \in RangeOrders(arg[p]) :
        /\ snapshot' = [snapshot EXCEPT ![p] = s]
        /\ csvData' = [csvData EXCEPT ![p] = convertToCSV(arg[p], s)]

\* csvData := convertToCSV(nodeclaimmap)
Serialize(p) ==
    /\ pc[p] = "serialize"
    /\ Convert(p)
    /\ steps' = [steps EXCEPT ![p] = Append(@, Did("serialize", "ok"))]
    /\ pc' = [pc EXCEPT ![p] = "key"]
    /\ UNCHANGED <<env, initDone, config, clock, storage,
                   arg, invokedAt, timestampAt, s3Key, ret, stderr>>

\* a key stamped with the date alone
ObjectKey_DateOnly(prefix, t) ==
    TrimSuffix(prefix, Slash) \o KeyInfix \o DateOfRun \o KeySuffix

\* the object key of a call that reads the clock at t
ObjectKey(prefix, t) ==
    TrimSuffix(prefix, Slash) \o KeyInfix \o Format(t) \o KeySuffix

\* timestamp := time.Now().Format(...); s3Key := fmt.Sprintf(...)
GenerateKey(p) ==
    /\ pc[p] = "key"
    /\ timestampAt' = [timestampAt EXCEPT ![p] = clock]
    /\ s3Key' = [s3Key EXCEPT ![p] = ObjectKey(s3Prefix, clock)]
    /\ steps' = [steps EXCEPT ![p] = Append(@, Did("key", "ok"))]
    /\ pc' = [pc EXCEPT ![p] = "put"]
    /\ UNCHANGED <<env, initDone, config, clock, storage,
                   arg, invokedAt, snapshot, csvData, ret, stderr>>

\* client.PutObject succeeds: the object is stored, the notice written, nil returned
PutObjectOK(p) ==
    /\ pc[p] = "put"
    /\ storage' = (s3Key[p] :> csvData[p]) @@ storage
    /\ stderr' = [stderr EXCEPT ![p] =
                    Append(@, SuccessNotice \o s3Bucket \o Slash \o s3Key[p] \o Newline)]
    /\ steps' = [steps EXCEPT ![p] = @ \o <<Did("write", "ok"), Did("notice", "ok")>>]
    /\ ret' = [ret EXCEPT ![p] = UploadRet(NilErr)]
    /\ pc' = [pc EXCEPT ![p] = "done"]
    /\ UNCHANGED <<env, initDone, config, clock,
                   arg, invokedAt, snapshot, csvData, timestampAt, s3Key>>

\* the error of PutObject left unchecked: the notice is written, nil returned
PutObjectFail_ErrIgnored(p) ==
    /\ pc[p] = "put"
    /\ \E cause \in PutCauses :
         steps' = [steps EXCEPT ![p] = @ \o <<Did("write", cause), Did("notice", "ok")>>]
    /\ stderr' = [stderr EXCEPT ![p] =
                    Append(@, SuccessNotice \o s3Bucket \o Slash \o s3Key[p] \o Newline)]
    /\ ret' = [ret EXCEPT ![p] = UploadRet(NilErr)]
    /\ pc' = [pc EXCEPT ![p] = "done"]
    /\ UNCHANGED <<env, initDone, config, clock, storage,
                   arg, invokedAt, snapshot, csvData, timestampAt, s3Key>>

\* a failed PutObject tried again
PutObjectFail_Retry(p) ==
    /\ pc[p] = "put"
    /\ \E cause \in PutCauses :
         steps' = [steps EXCEPT ![p] = Append(@, Did("write", cause))]
    /\ UNCHANGED <<env, initDone, config, clock, storage, pc, ret,
                   arg, invokedAt, snapshot, csvData, timestampAt, s3Key, stderr>>

\* client.PutObject fails (the store refuses, or ctx is cancelled or expired)
PutObjectFail(p) ==
    /\ pc[p] = "put"
    /\ \E cause \in PutCauses :
         /\ steps' = [steps EXCEPT ![p] = Append(@, Did("write", cause))]
         /\ ret' = [ret EXCEPT ![p] = UploadRet([msg |-> UploadErrMsg, wraps |-> cause])]
    /\ pc' = [pc EXCEPT ![p] = "done"]
    /\ UNCHANGED <<env, initDone, config, clock, storage,
                   arg, invokedAt, snapshot, csvData, timestampAt, s3Key, stderr>>

\* the caller takes the result; the call's locals are gone
Return(p) ==
    /\ pc[p] = "done"
    /\ pc' = [pc EXCEPT ![p] = "idle"]
    /\ ret' = [ret EXCEPT ![p] = NoRet]
    /\ NoLocals(p)
    /\ UNCHANGED <<env, initDone, config, clock, storage>>

\* a second passes
Tick ==
    /\ clock < StartOfRun + MaxTicks
    /\ clock' = clock + 1
    /\ UNCHANGED <<env, initDone, config, storage, pc, locals>>

Step(p) ==
    \/ IsEnabled(p)
    \/ GetConfig(p)
    \/ GateCheck(p)
    \/ LoadDefaultConfig(p)
    \/ Serialize(p)
    \/ GenerateKey(p)
    \/ PutObjectOK(p)
    \/ PutObjectFail(p)
    \/ Return(p)

Next ==
    \/ init
    \/ Tick
    \/ \E p \in Callers : Step(p)

Spec == Init /\ [][Next]_vars

(***************************************************************************)
(* The serializer alone: one caller holds a Record Collection and calls    *)
(* convertToCSV on it again and again.                                     *)
(***************************************************************************)
InitCSV ==
    /\ env = [bucket |-> Empty, prefix |-> Empty, region |-> Empty]
    /\ initDone = FALSE
    /\ s3Bucket = Empty /\ s3Prefix = Empty /\ s3Region = Empty
    /\ s3Enabled = FALSE
    /\ clock = StartOfRun
    /\ storage = [k \in {} |-> Empty]
    /\ pc = [p \in Callers |-> "idle"]
    /\ \E m \in Collections(MaxRecs) : arg = [p \in Callers |-> m]
    /\ invokedAt = [p \in Callers |-> 0]
    /\ snapshot = [p \in Callers |-> <<>>]
    /\ csvData = [p \in Callers |-> Empty]
    /\ timestampAt = [p \in Callers |-> 0]
    /\ s3Key = [p \in Callers |-> Empty]
    /\ ret = [p \in Callers |-> NoRet]
    /\ stderr = [p \in Callers |-> <<>>]
    /\ steps = [p \in Callers |-> <<>>]

CallConvertToCSV ==
    /\ Convert(1)
    /\ UNCHANGED <<env, initDone, config, clock, storage, pc,
                   arg, invokedAt, timestampAt, s3Key, ret, stderr, steps>>

NextCSV == CallConvertToCSV

SpecCSV == InitCSV /\ [][NextCSV]_vars

(***************************************************************************)
(* Reading CSV text back: the fields of a text between separators.         *)
(***************************************************************************)
FirstIndex(text, c) ==
    IF \E i \in 1..Len(text) : text[i] = c
    THEN CHOOSE i \in 1..Len(text) :
            /\ text[i] = c
            /\ \A j \in 1..(i - 1) : text[j] # c
    ELSE 0

RECURSIVE Split(_, _)
Split(text, c) ==
    LET i == FirstIndex(text, c)
    IN  IF i = 0 THEN <<text>>
        ELSE <<SubSeq(text, 1, i - 1)>> \o Split(SubSeq(text, i + 1, Len(text)), c)

NoComma(text) == FirstIndex(text, ",") = 0

\* the enumerations of a finite set D, each element once
Enumerations(D) ==
    { f \in [1..Cardinality(D) -> D] :
        \A i, j \in 1..Cardinality(D) : i # j => f[i] # f[j] }

\* the text of the row of identifier k and record v
ExpectedRow(k, v) == k \o Comma \o v.Name \o Comma \o Dec(v.Createdtime)

(***************************************************************************)
(* C2: convertToCSV outputs the header line and then exactly one           *)
(* newline-terminated row per (identifier, Record) pair of the collection  *)
(* and nothing else; the rows are a permutation of the pairs, in           *)
(* non-decreasing order of Createdtime, whatever the enumeration order.    *)
(***************************************************************************)
C2_HeaderThenRowsByCreatedtime ==
    \A p \in Callers :
        csvData[p] # Empty =>
            LET m == arg[p]
                n == Cardinality(DOMAIN m)
                parts == Split(csvData[p], "\n")
            IN  /\ Len(parts) = n + 2
                /\ parts[n + 2] = Empty
                /\ parts[1] = Header
                /\ \E f \in Enumerations(DOMAIN m) :
                     /\ \A i \in 1..n : parts[i + 1] = ExpectedRow(f[i], m[f[i]])
                     /\ \A i, j \in 1..n :
                          i < j => m[f[i]].Createdtime <= m[f[j]].Createdtime

\* records created at 11, 9, 10 under identifiers a, b, c, enumerated in the
\* order a, b, c, come out as b(9), c(10), a(11)
C2_Witness ==
    /\ arg[1] = [k \in Ids(3) |->
                   [Name |-> <<"n">>,
                    Createdtime |-> IF k = <<"a">> THEN 11
                                    ELSE IF k = <<"b">> THEN 9 ELSE 10]]
    /\ Len(snapshot[1]) = 3
    /\ [i \in 1..3 |-> snapshot[1][i].key] = << <<"a">>, <<"b">>, <<"c">> >>
    /\ csvData[1] = Header \o Newline
                      \o <<"b",",","n",",","9">> \o Newline
                      \o <<"c",",","n",",","1","0">> \o Newline
                      \o <<"a",",","n",",","1","1">> \o Newline

(***************************************************************************)
(* C3: serialization is deterministic: convertToCSV yields the same text   *)
(* on every call with the same collection, also when records have equal    *)
(* Createdtime, whatever order the map is enumerated in.                   *)
(***************************************************************************)
C3_SameTextOnEveryCall ==
    [][ \A p \in Callers :
          (csvData[p] # Empty /\ csvData'[p] # Empty /\ arg'[p] = arg[p])
              => csvData'[p] = csvData[p] ]_vars

(***************************************************************************)
(* C9: the header has 1+N columns, "Nodeclaim[1]" and then                 *)
(* "<field k-1>[k]"; every row is the identifier and the N field values in *)
(* declared order, and has as many comma-separated columns as the header   *)
(* when its values hold no comma.                                          *)
(***************************************************************************)
C9_HeaderAndRowColumns ==
    \A p \in Callers :
        csvData[p] # Empty =>
            LET m == arg[p]
                parts == Split(csvData[p], "\n")
                hcols == Split(parts[1], ",")
            IN  /\ Len(hcols) = 1 + NumField
                /\ hcols[1] = NodeclaimLabel
                /\ \A k \in 2..(NumField + 1) :
                     hcols[k] = FieldNames[k - 1] \o <<"[">> \o Dec(k) \o <<"]">>
                /\ parts[1] = <<"N","o","d","e","c","l","a","i","m","[","1","]",",","N","a","m","e","[","2","]",",","C","r","e","a","t","e","d","t","i","m","e","[","3","]">>
                /\ \A i \in 2..(Len(parts) - 1) :
                     LET cols == Split(parts[i], ",")
                         k == cols[1]
                     IN  /\ k \in DOMAIN m
                         /\ parts[i] = ExpectedRow(k, m[k])
                         /\ NoComma(m[k].Name) =>
                              /\ Len(cols) = Len(hcols)
                              /\ cols = <<k, m[k].Name, Dec(m[k].Createdtime)>>

\* two rows of values without commas, three columns each
C9_Witness ==
    /\ DOMAIN arg[1] = Ids(2)
    /\ \A k \in Ids(2) : NoComma(arg[1][k].Name)
    /\ csvData[1] # Empty
    /\ LET parts == Split(csvData[1], "\n")
       IN  /\ Len(parts) = 4
           /\ \A i \in 1..3 : Len(Split(parts[i], ",")) = 3

(***************************************************************************)
(* What a call has done so far.                                            *)
(***************************************************************************)
StepNames(p) == [i \in 1..Len(steps[p]) |-> steps[p][i].name]
Done(p, name) == \E i \in 1..Len(steps[p]) : steps[p][i].name = name
Failed(p, name) ==
    \E i \in 1..Len(steps[p]) :
        steps[p][i].name = name /\ steps[p][i].result # "ok"
Writes(p) == Cardinality({ i \in 1..Len(steps[p]) : steps[p][i].name = "write" })
IsPrefix(a, b) == Len(a) <= Len(b) /\ a = SubSeq(b, 1, Len(a))
StepOrder == <<"gate", "session", "serialize", "key", "write", "notice">>
NoObjects == DOMAIN storage = {}

(***************************************************************************)
(* C1: with the gate disabled UploadToS3 returns nil at once, for every    *)
(* Record Collection: no session, no serialization, no storage write, no   *)
(* success notice.                                                         *)
(***************************************************************************)
C1_DisabledGateIsNoOp ==
    (initDone /\ ~s3Enabled) =>
        /\ NoObjects
        /\ \A p \in Callers :
             /\ pc[p] \in {"idle", "done"}
             /\ steps[p] # <<>> =>
                  /\ pc[p] = "done"
                  /\ ret[p] = UploadRet(NilErr)
                  /\ steps[p] = <<Did("gate", "ok")>>
                  /\ snapshot[p] = <<>> /\ csvData[p] = Empty
                  /\ s3Key[p] = Empty
                  /\ stderr[p] = <<>>

C1_Witness ==
    /\ initDone /\ ~s3Enabled
    /\ pc[1] = "done" /\ ret[1].op = "UploadToS3"
    /\ DOMAIN arg[1] # {}
    /\ pc[2] = "done" /\ ret[2].op = "UploadToS3"
    /\ DOMAIN arg[2] = {}

(***************************************************************************)
(* C4: the object key is the prefix without trailing slash, then           *)
(* "/karpenter-nodeclaims-", the timestamp and ".csv"; what stands before  *)
(* "/karpenter-nodeclaims-" never ends in a slash, also for prefixes that  *)
(* end in several slashes or are "/" alone.                                *)
(***************************************************************************)
FirstOccurrence(text, pat) ==
    LET at == { i \in 1..(Len(text) - Len(pat) + 1) :
                  SubSeq(text, i, i + Len(pat) - 1) = pat }
    IN  IF at = {} THEN 0 ELSE CHOOSE i \in at : \A j \in at : i <= j

C4_NoSlashBeforeInfix ==
    \A p \in Callers :
        s3Key[p] # Empty =>
            LET i == FirstOccurrence(s3Key[p], KeyInfix)
                stem == SubSeq(s3Key[p], 1, i - 1)
            IN  /\ i > 0
                /\ s3Key[p] = stem \o KeyInfix \o Format(timestampAt[p]) \o KeySuffix
                /\ stem = Empty \/ stem[Len(stem)] # "/"

(***************************************************************************)
(* C5: two calls that reach the upload write to the same key only if they  *)
(* were invoked in the same clock second; when two calls share a key the   *)
(* object stored is the body of the upload that completed later, and       *)
(* neither call reports an error for it.                                   *)
(***************************************************************************)
C5_SameKeyOnlyIfInvokedInSameSecond ==
    \A p, q \in Callers :
        (p # q /\ Done(p, "write") /\ Done(q, "write") /\ s3Key[p] = s3Key[q])
            => invokedAt[p] = invokedAt[q]

\* the second that decides the key is the one time.Now() returned to the key
\* computation, not the one of the invocation
C5_KeysBySecondRead ==
    \A p, q \in Callers :
        (p # q /\ s3Key[p] # Empty /\ s3Key[q] # Empty)
            => (s3Key[p] = s3Key[q] <=> timestampAt[p] = timestampAt[q])

C5_LastWriterWins ==
    \A p \in Callers :
        (pc[p] = "put" /\ pc'[p] = "done" /\ Done(p, "write")' /\ ~Failed(p, "write")')
            => /\ s3Key[p] \in DOMAIN storage'
               /\ storage'[s3Key[p]] = csvData[p]
               /\ ret'[p] = UploadRet(NilErr)
               /\ \A q \in Callers \ {p} : ret'[q] = ret[q]

\* C5, as amended: two calls share a key iff time.Now() gave their key
\* computations the same second; a successful put leaves its own body at the
\* key and returns nil, whatever was stored there, and changes no other result
C5_SameKeyBySecondRead_LastWriterWins ==
    []C5_KeysBySecondRead /\ [][C5_LastWriterWins]_vars

\* both calls wrote different bodies to one key, invoked in different seconds;
\* both returned nil and the bucket holds the body written last
C5_Witness ==
    /\ pc[1] = "done" /\ pc[2] = "done"
    /\ ret[1] = UploadRet(NilErr) /\ ret[2] = UploadRet(NilErr)
    /\ Done(1, "write") /\ Done(2, "write")
    /\ s3Key[1] = s3Key[2]
    /\ invokedAt[1] # invokedAt[2]
    /\ csvData[1] # csvData[2]
    /\ storage[s3Key[1]] = csvData[2]

(***************************************************************************)
(* C6: after init, enabled = (location is non-empty); when enabled, the    *)
(* prefix and the region are non-empty (defaulted to "karpenter-logs" and  *)
(* "us-east-1"); no later operation changes the configuration.             *)
(***************************************************************************)
C6_Resolved ==
    initDone =>
        /\ s3Bucket = env.bucket
        /\ s3Enabled = (s3Bucket # Empty)
        /\ s3Enabled => (s3Prefix # Empty /\ s3Region # Empty)
        /\ (s3Enabled /\ env.prefix = Empty) =>
               s3Prefix = <<"k","a","r","p","e","n","t","e","r","-","l","o","g","s">>
        /\ (s3Enabled /\ env.region = Empty) =>
               s3Region = <<"u","s","-","e","a","s","t","-","1">>

C6_ReadOnly == initDone => config' = config

\* C6: the resolved configuration satisfies the invariant in every state after
\* init, and no step after init changes it
C6_ConfigInvariant ==
    []C6_Resolved /\ [][C6_ReadOnly]_vars

\* defaults applied, and all three operations have been called since
C6_Witness ==
    /\ initDone /\ s3Enabled
    /\ env.prefix = Empty /\ env.region = Empty
    /\ s3Prefix = DefaultPrefix /\ s3Region = DefaultRegion
    /\ pc[1] = "done" /\ ret[1] = UploadRet(NilErr) /\ Done(1, "write")
    /\ pc[2] = "done" /\ ret[2].op = "GetConfig"
    /\ ret[2].config = <<s3Bucket, DefaultPrefix, DefaultRegion>>

(***************************************************************************)
(* C7: a failed storage write (a cancelled or expired context included)    *)
(* makes UploadToS3 return the upload error wrapping the store's error,    *)
(* with no success notice; the notice, naming location and key, is written *)
(* exactly once iff the write succeeded and the call returns nil.          *)
(***************************************************************************)
C7_UploadErrorOrNotice ==
    \A p \in Callers :
        /\ Len(stderr[p]) <= 1
        /\ \A i \in 1..Len(steps[p]) :
             (steps[p][i].name = "write" /\ steps[p][i].result # "ok") =>
                 /\ pc[p] = "done"
                 /\ ret[p] = UploadRet([msg |-> UploadErrMsg,
                                        wraps |-> steps[p][i].result])
                 /\ ret[p].err # NilErr
                 /\ stderr[p] = <<>>
        /\ Len(stderr[p]) = 1 <=>
             /\ pc[p] = "done" /\ ret[p] = UploadRet(NilErr)
             /\ Done(p, "write") /\ ~Failed(p, "write")
        /\ Len(stderr[p]) = 1 =>
             stderr[p][1] = SuccessNotice \o s3Bucket \o Slash \o s3Key[p] \o Newline

C7_Witness ==
    /\ pc[1] = "done"
    /\ \E i \in 1..Len(steps[1]) : steps[1][i] = Did("write", "context canceled")
    /\ ret[1].err.wraps = "context canceled"
    /\ pc[2] = "done" /\ Len(stderr[2]) = 1

(***************************************************************************)
(* C8: a call that reaches serialization makes exactly one storage write   *)
(* attempt, whether it succeeds or fails (no retry), and has no other      *)
(* effect on the storage.                                                  *)
(***************************************************************************)
C8_WriteCount ==
    \A p \in Callers :
        /\ Writes(p) <= 1
        /\ ~Done(p, "serialize") => Writes(p) = 0
        /\ (pc[p] = "done" /\ Done(p, "serialize")) => Writes(p) = 1

C8_OnlyThePut ==
    storage' # storage =>
        \E p \in Callers :
            /\ pc[p] = "put" /\ Writes(p) = 0 /\ Writes(p)' = 1
            /\ storage' = (s3Key[p] :> csvData[p]) @@ storage

\* C8: one write step per call that serialized, none otherwise, and the bucket
\* changes only by that put
C8_ExactlyOneWrite ==
    []C8_WriteCount /\ [][C8_OnlyThePut]_vars

C8_Witness ==
    /\ pc[1] = "done" /\ Failed(1, "write") /\ Writes(1) = 1
    /\ pc[2] = "done" /\ Done(2, "notice") /\ Writes(2) = 1
    /\ DOMAIN storage = {s3Key[2]}

(***************************************************************************)
(* C10: when the session cannot be acquired UploadToS3 returns the         *)
(* configuration error wrapping the cause before any serialization: no     *)
(* convertToCSV, no key, no write, no notice.  The steps of every call     *)
(* come in the order gate, session, serialization, key, write, notice.     *)
(***************************************************************************)
C10_ConfigErrorAbortsInOrder ==
    \A p \in Callers :
        /\ IsPrefix(StepNames(p), StepOrder)
        /\ \A i \in 1..Len(steps[p]) :
             (steps[p][i].name = "session" /\ steps[p][i].result # "ok") =>
                 /\ pc[p] = "done"
                 /\ ret[p] = UploadRet([msg |-> ConfigErrMsg,
                                        wraps |-> steps[p][i].result])
                 /\ ret[p].err # NilErr
                 /\ StepNames(p) = <<"gate", "session">>
                 /\ snapshot[p] = <<>> /\ csvData[p] = Empty
                 /\ s3Key[p] = Empty
                 /\ stderr[p] = <<>>

C10_Witness ==
    /\ pc[1] = "done" /\ Failed(1, "session") /\ DOMAIN arg[1] # {}
    /\ ret[1].err.wraps = "no credentials"
    /\ pc[2] = "done" /\ StepNames(2) = StepOrder

====
